---- MODULE Spec2Model ----
(***************************************************************************)
(* mkfile (src/src/main.rs): argument reconstruction, brace expansion,     *)
(* batch file creation with its success/total accounting, and the global   *)
(* GNTP client handle.                                                     *)
(*                                                                         *)
(* A Rust string is modelled as a sequence of one-character strings, so    *)
(* that scanning, splitting and concatenation are computed character by    *)
(* character as the code does.                                             *)
(***************************************************************************)
EXTENDS Integers, Sequences, FiniteSets, TLC

VARIABLES
    \* ---- parse_brace_expansion called on one token
    token,          \* the argument `text`
    expanded,       \* the Vec<String> parse_brace_expansion returned
    step_files,     \* all_files after create_files' expansion loop on [token]
    epc,            \* "call" | "returned"
    \* ---- reconstruct_files
    args,           \* the argument `args`
    joined,         \* args.join(" ")
    pos,            \* number of characters of joined already scanned
    current,        \* the buffer `current`
    in_braces,      \* the flag `in_braces`
    rfile_list,     \* the Vec `file_list` of reconstruct_files
    rpc,            \* "scan" | "returned"
    \* ---- main from line 364 on: create_files, the summary, the exit
    file_list,      \* the tokens reconstruct_files returned
    all_files,      \* the Vec `all_files` of create_files
    idx,            \* number of iterations of the loop of line 260 done
    success_count,  \* the counter `success_count`
    attempts,       \* one record per create_file call, in call order
    fs_dirs,        \* the directories that exist below the working directory
    fs_files,       \* the regular files that exist: path -> length
    denied,         \* the paths at which the OS refuses to create anything
    total_expected, \* the sum of line 380
    exit_code,      \* the argument of process::exit
    bpc,            \* "expand" | "create" | "summary" | "exited"
    \* ---- the global GNTP client
    use_gntp,       \* FileCreator.use_gntp
    gntp_client,    \* GNTP_CLIENT's contents: 0 for None, else the client
    lock,           \* the thread holding GNTP_CLIENT's mutex, 0 when free
    tpc,            \* each thread's position in init_gntp or notify
    tclient,        \* each thread's local `client` in init_gntp
    ncalls,         \* the calls each thread has begun
    events,         \* GntpClient::new / register outcomes, in order
    notified        \* the clients client.notify was called on

expandVars == <<token, expanded, step_files, epc>>
reconVars == <<args, joined, pos, current, in_braces, rfile_list, rpc>>
batchVars == <<file_list, all_files, idx, success_count, attempts, fs_dirs,
               fs_files, denied, total_expected, exit_code, bpc>>
gntpVars == <<use_gntp, gntp_client, lock, tpc, tclient, ncalls, events,
              notified>>
vars == <<expandVars, reconVars, batchVars, gntpVars>>

(***************************************************************************)
(* Bounds of the model.                                                    *)
(***************************************************************************)
MaxLen == 5         \* longest enumerated token given to parse_brace_expansion
MaxJoined == 5      \* longest enumerated args.join(" ") given to reconstruct_files
MaxTokens == 2      \* most tokens in the file_list given to create_files
MaxDenied == 1      \* most paths at which the OS refuses creation
MaxThreads == 2     \* threads calling init_gntp and notify
MaxCalls == 2       \* calls each thread makes

(***************************************************************************)
(* Characters and string helpers.                                          *)
(***************************************************************************)
Alphabet == {"{", "}", ",", " ", "a", "/", "\\"}

SeqsUpTo(S, n) == UNION {[1..k -> S] : k \in 0..n}

Last(s) == s[Len(s)]

Contains(s, c) == \E i \in 1..Len(s) : s[i] = c

\* char::is_whitespace, restricted to the characters a command line carries
IsWhitespace(c) == c \in {" ", "\t", "\n"}

RECURSIVE Flatten(_)
Flatten(ss) ==
    IF ss = <<>> THEN <<>> ELSE Head(ss) \o Flatten(Tail(ss))

\* str::split(',') : the pieces between commas, empty pieces kept
RECURSIVE SplitComma(_)
SplitComma(s) ==
    IF ~Contains(s, ",") THEN <<s>>
    ELSE LET i == CHOOSE k \in 1..Len(s) :
                      s[k] = "," /\ \A j \in 1..(k - 1) : s[j] # ","
         IN  <<SubSeq(s, 1, i - 1)>> \o SplitComma(SubSeq(s, i + 1, Len(s)))

\* str::trim : leading and trailing whitespace removed
RECURSIVE Trim(_)
Trim(s) ==
    IF s = <<>> THEN s
    ELSE IF IsWhitespace(Head(s)) THEN Trim(Tail(s))
    ELSE IF IsWhitespace(Last(s)) THEN Trim(SubSeq(s, 1, Len(s) - 1))
    ELSE s

\* str::split_whitespace : the maximal runs of non-whitespace, in order
RECURSIVE SplitWhitespace(_)
SplitWhitespace(s) ==
    IF s = <<>> THEN <<>>
    ELSE IF IsWhitespace(Head(s)) THEN SplitWhitespace(Tail(s))
    ELSE LET ends == {k \in 1..Len(s) : \A j \in 1..k : ~IsWhitespace(s[j])}
             e == CHOOSE k \in ends : \A k2 \in ends : k2 <= k
         IN  <<SubSeq(s, 1, e)>> \o SplitWhitespace(SubSeq(s, e + 1, Len(s)))

(***************************************************************************)
(* The pattern of line 100 and pattern.captures(text) of line 102: any     *)
(* number of non-'{', a '{', one or more non-'}', a '}', any number of     *)
(* non-'{'; three capture groups around the three runs.                    *)
(*                                                                         *)
(* A match is [s, p, q, e]: group 1 is text[s..p-1] (no '{'), text[p] is   *)
(* '{', group 2 is text[p+1..q-1] (at least one character, no '}'),        *)
(* text[q] is '}', group 3 is text[q+1..e] (no '{').  The search is        *)
(* unanchored; captures returns the leftmost match, and among the matches  *)
(* that start there the one the greedy quantifiers prefer: each group in   *)
(* turn as long as possible.                                               *)
(***************************************************************************)
NoneIs(text, i, j, c) == \A k \in i..j : text[k] # c

\* faulty variant: group 2 written [^}]* instead of [^}]+, so that "{}" is a group
RegexMatches_StarItems(text) ==
    LET n == Len(text)
        Opens == {p \in 1..n : text[p] = "{"}
        Starts(p) == {s \in 1..p : NoneIs(text, s, p - 1, "{")}
        Closes(p) == {q \in (p + 1)..n :
                        text[q] = "}" /\ NoneIs(text, p + 1, q - 1, "}")}
        Ends(q) == {e \in q..n : NoneIs(text, q + 1, e, "{")}
    IN  UNION {UNION {{[s |-> s, p |-> p, q |-> q, e |-> e] :
                          s \in Starts(p), e \in Ends(q)} :
                      q \in Closes(p)} :
               p \in Opens}

RegexMatches(text) ==
    LET n == Len(text)
        Opens == {p \in 1..n : text[p] = "{"}
        Starts(p) == {s \in 1..p : NoneIs(text, s, p - 1, "{")}
        Closes(p) == {q \in (p + 2)..n :
                        text[q] = "}" /\ NoneIs(text, p + 1, q - 1, "}")}
        Ends(q) == {e \in q..n : NoneIs(text, q + 1, e, "{")}
    IN  UNION {UNION {{[s |-> s, p |-> p, q |-> q, e |-> e] :
                          s \in Starts(p), e \in Ends(q)} :
                      q \in Closes(p)} :
               p \in Opens}

Preferred(m1, m2) ==
    \/ m1.s < m2.s
    \/ m1.s = m2.s /\ m1.p > m2.p
    \/ m1.s = m2.s /\ m1.p = m2.p /\ m1.q > m2.q
    \/ m1.s = m2.s /\ m1.p = m2.p /\ m1.q = m2.q /\ m1.e >= m2.e

captures(text) ==
    LET ms == RegexMatches(text)
    IN  CHOOSE m \in ms : \A m2 \in ms : Preferred(m, m2)

\* faulty variant: the separator is appended without the is_empty test
NormalizePrefix_AlwaysSlash(prefix) ==
    IF Len(prefix) > 0 /\ (Last(prefix) = "/" \/ Last(prefix) = "\\")
    THEN prefix
    ELSE Append(prefix, "/")

\* the separator rule of lines 107-110
NormalizePrefix(prefix) ==
    IF prefix # <<>> /\ Last(prefix) # "/" /\ Last(prefix) # "\\"
    THEN Append(prefix, "/")
    ELSE prefix

\* lines 112-119: split on ',', then each trimmed piece on whitespace
RECURSIVE SplitItemsOf(_)
SplitItemsOf(parts) ==
    IF parts = <<>> THEN <<>>
    ELSE SplitWhitespace(Trim(Head(parts))) \o SplitItemsOf(Tail(parts))

SplitItems(items_str) == SplitItemsOf(SplitComma(items_str))

NonEmpty(item) == item # <<>>

\* faulty variant: the no-match branch returns an empty Vec instead of vec![text]
parse_brace_expansion_NoMatchEmpty(text) ==
    IF RegexMatches(text) # {}
    THEN LET caps == captures(text)
             prefix == NormalizePrefix(SubSeq(text, caps.s, caps.p - 1))
             items_str == SubSeq(text, caps.p + 1, caps.q - 1)
             suffix == SubSeq(text, caps.q + 1, caps.e)
             items == SelectSeq(SplitItems(items_str), NonEmpty)
         IN  [k \in 1..Len(items) |-> prefix \o items[k] \o suffix]
    ELSE <<>>

parse_brace_expansion(text) ==
    IF RegexMatches(text) # {}
    THEN LET caps == captures(text)
             prefix == NormalizePrefix(SubSeq(text, caps.s, caps.p - 1))
             items_str == SubSeq(text, caps.p + 1, caps.q - 1)
             suffix == SubSeq(text, caps.q + 1, caps.e)
             items == SelectSeq(SplitItems(items_str), NonEmpty)
         IN  [k \in 1..Len(items) |-> prefix \o items[k] \o suffix]
    ELSE <<text>>

\* create_files, lines 250-257: the expansion of one argument
ExpandArg(file_arg) ==
    IF Contains(file_arg, "{") /\ Contains(file_arg, "}")
    THEN parse_brace_expansion(file_arg)
    ELSE <<file_arg>>

RECURSIVE ExpandAll(_)
ExpandAll(files) ==
    IF files = <<>> THEN <<>>
    ELSE ExpandArg(Head(files)) \o ExpandAll(Tail(files))

(***************************************************************************)
(* The tokens of the documented examples.                                  *)
(***************************************************************************)
TokDirABC == <<"d", "i", "r", "/", "{", "a", ",", "b", ",", "c", "}", ".", "t", "x", "t">>
TokSpaced == <<"{", "a", ",", " ", "b", " ", ",", "c", "}">>
TokTwoGroups == <<"a", "{", "1", ",", "2", "}", "b", "{", "3", ",", "4", "}", "c">>
TokEmptyThenGroup == <<"a", "{", "}", "b", "{", "c", "}", "d">>
TokPlain == <<"p", "r", "e", "f", "i", "x">>

ExampleTokens == {TokDirABC, TokSpaced, TokTwoGroups, TokEmptyThenGroup, TokPlain}

Tokens == SeqsUpTo(Alphabet, MaxLen) \cup ExampleTokens

(***************************************************************************)
(* Specification: one call of parse_brace_expansion, and of the expansion  *)
(* loop of create_files, on an arbitrary token.                            *)
(***************************************************************************)
ReconIdle ==
    /\ args = <<>> /\ joined = <<>> /\ pos = 0 /\ current = <<>>
    /\ in_braces = FALSE /\ rfile_list = <<>> /\ rpc = "idle"

ExpandIdle ==
    /\ token = <<>> /\ expanded = <<>> /\ step_files = <<>> /\ epc = "idle"

BatchIdle ==
    /\ file_list = <<>> /\ all_files = <<>> /\ idx = 0 /\ success_count = 0
    /\ attempts = <<>> /\ fs_dirs = {} /\ fs_files = <<>> /\ denied = {}
    /\ total_expected = 0 /\ exit_code = -1 /\ bpc = "idle"

GntpIdle ==
    /\ use_gntp = FALSE /\ gntp_client = 0 /\ lock = 0 /\ tpc = <<>>
    /\ tclient = <<>> /\ ncalls = <<>> /\ events = <<>> /\ notified = {}

InitExpand ==
    /\ token \in Tokens
    /\ expanded = <<>>
    /\ step_files = <<>>
    /\ epc = "call"
    /\ ReconIdle /\ BatchIdle /\ GntpIdle

Expand ==
    /\ epc = "call"
    /\ expanded' = parse_brace_expansion(token)
    /\ step_files' = ExpandAll(<<token>>)
    /\ epc' = "returned"
    /\ UNCHANGED <<token, reconVars, batchVars, gntpVars>>

NextExpand == Expand

SpecExpand == InitExpand /\ [][NextExpand]_vars

(***************************************************************************)
(* Vocabulary of the claims about parse_brace_expansion.                   *)
(***************************************************************************)
CountOf(s, c) == Cardinality({i \in 1..Len(s) : s[i] = c})

IndexOf(s, c) == CHOOSE i \in 1..Len(s) : s[i] = c /\ \A j \in 1..(i - 1) : s[j] # c

IsSeparator(c) == c = "," \/ IsWhitespace(c)

\* exactly one '{', exactly one '}', '{' first, an item character in between
SingleGroup(t) ==
    /\ CountOf(t, "{") = 1
    /\ CountOf(t, "}") = 1
    /\ IndexOf(t, "{") < IndexOf(t, "}")
    /\ \E i \in (IndexOf(t, "{") + 1)..(IndexOf(t, "}") - 1) : ~IsSeparator(t[i])

\* the positions in p+1..q-1 where an item starts, and where that item ends
ItemStarts(t, p, q) ==
    {i \in (p + 1)..(q - 1) :
        ~IsSeparator(t[i]) /\ (i = p + 1 \/ IsSeparator(t[i - 1]))}

ItemEnd(t, i, q) ==
    CHOOSE j \in i..(q - 1) :
        /\ \A k \in i..j : ~IsSeparator(t[k])
        /\ (j = q - 1 \/ IsSeparator(t[j + 1]))

\* the first '{' of t and the first '}' after it
HasFirstGroup(t) ==
    \E p \in 1..Len(t) : t[p] = "{" /\ \E q \in (p + 1)..Len(t) : t[q] = "}"

FirstOpen(t) == IndexOf(t, "{")

FirstClose(t) ==
    CHOOSE q \in (FirstOpen(t) + 1)..Len(t) :
        t[q] = "}" /\ \A j \in (FirstOpen(t) + 1)..(q - 1) : t[j] # "}"

\* no '{' is followed, anywhere later, by a '}'
NoBracePair(t) ==
    ~\E i \in 1..Len(t) : \E j \in (i + 1)..Len(t) : t[i] = "{" /\ t[j] = "}"

EndsWith(s, suf) ==
    Len(s) >= Len(suf) /\ SubSeq(s, Len(s) - Len(suf) + 1, Len(s)) = suf

\* C1: a token with exactly one '{' and one '}', '{' first and an item between
\* them, expands to prefix' + item + suffix for each item in order: the items
\* are the maximal runs of characters other than ',' and whitespace between the
\* braces, suffix is the text after '}', and prefix' is the text before '{'
\* with '/' appended exactly when it is non-empty and ends in neither '/' nor
\* '\'.  dir/{a,b,c}.txt gives dir/a.txt, dir/b.txt, dir/c.txt and {a, b ,c}
\* gives a, b, c.
C1_SingleGroupExpansion ==
    /\ (epc = "returned" /\ SingleGroup(token)) =>
        LET p == IndexOf(token, "{")
            q == IndexOf(token, "}")
            before == SubSeq(token, 1, p - 1)
            pre == IF before = <<>> \/ Last(before) \in {"/", "\\"}
                   THEN before ELSE before \o <<"/">>
            suf == SubSeq(token, q + 1, Len(token))
            starts == ItemStarts(token, p, q)
        IN  /\ Len(expanded) = Cardinality(starts)
            /\ \A i \in starts :
                 expanded[Cardinality({j \in starts : j <= i})]
                    = pre \o SubSeq(token, i, ItemEnd(token, i, q)) \o suf
    /\ (epc = "returned" /\ token = TokDirABC) =>
        expanded = << <<"d", "i", "r", "/", "a", ".", "t", "x", "t">>,
                      <<"d", "i", "r", "/", "b", ".", "t", "x", "t">>,
                      <<"d", "i", "r", "/", "c", ".", "t", "x", "t">> >>
    /\ (epc = "returned" /\ token = TokSpaced) =>
        expanded = << <<"a">>, <<"b">>, <<"c">> >>

C1_Witness ==
    /\ epc = "returned" /\ SingleGroup(token)
    /\ Len(expanded) = 3
    /\ expanded[3] = <<"d", "i", "r", "/", "c", ".", "t", "x", "t">>

\* C2: a token with more than one brace group has only its first group
\* expanded, and everything after the first '}' is kept as literal suffix:
\* a{1,2}b{3,4}c gives exactly a1b{3,4}c and a2b{3,4}c.
C2_OnlyFirstGroupRestLiteral ==
    /\ (epc = "returned" /\ token = TokTwoGroups) =>
        expanded = << <<"a", "1", "b", "{", "3", ",", "4", "}", "c">>,
                      <<"a", "2", "b", "{", "3", ",", "4", "}", "c">> >>
    /\ (epc = "returned" /\ HasFirstGroup(token)
            /\ FirstClose(token) > FirstOpen(token) + 1) =>
        \A k \in 1..Len(expanded) :
            EndsWith(expanded[k], SubSeq(token, FirstClose(token) + 1, Len(token)))

\* C3: parse_brace_expansion returns at least one path for every token, and a
\* token without a '{' ... '}' pair comes back unchanged as the only element.
C3_NeverEmpty ==
    epc = "returned" =>
        /\ Len(expanded) >= 1
        /\ NoBracePair(token) => expanded = <<token>>

\* C4: a token in which no '{' is followed by a '}' (no braces, only '{', only
\* '}', or '}' before '{') is passed through literally by
\* parse_brace_expansion and by the expansion loop of create_files: exactly one
\* path, equal to the token.
C4_NoPairPassThrough ==
    (epc = "returned" /\ NoBracePair(token)) =>
        /\ expanded = <<token>>
        /\ step_files = <<token>>

C4_Witness ==
    /\ epc = "returned" /\ NoBracePair(token)
    /\ Contains(token, "{") /\ Contains(token, "}")
    /\ step_files = <<token>>

RECURSIVE Join(_)
Join(list) ==
    IF list = <<>> THEN <<>>
    ELSE IF Len(list) = 1 THEN Head(list)
    ELSE Head(list) \o <<" ">> \o Join(Tail(list))

\* The argument vectors: every way of cutting a string of at most MaxJoined
\* symbols into arguments.  ArgBreak marks the boundary between two arguments;
\* a space inside an argument is a space the shell left there (a quoted one).
ArgChars == {"{", "}", " ", "a"}
ArgBreak == "|"

RECURSIVE CutArgs(_)
CutArgs(s) ==
    IF ~Contains(s, ArgBreak) THEN <<s>>
    ELSE LET i == IndexOf(s, ArgBreak)
         IN  <<SubSeq(s, 1, i - 1)>> \o CutArgs(SubSeq(s, i + 1, Len(s)))

ArgsSplitGroup ==
    << <<"d", "i", "r", "/", "{", "a", ",">>, <<"b", "}", ".", "t", "x", "t">> >>

ArgLists ==
    {CutArgs(s) : s \in SeqsUpTo(ArgChars \cup {ArgBreak}, MaxJoined)}
        \cup {ArgsSplitGroup}

InitRecon ==
    /\ args \in ArgLists
    /\ joined = Join(args)
    /\ pos = 0
    /\ current = <<>>
    /\ in_braces = FALSE
    /\ rfile_list = <<>>
    /\ rpc = "scan"
    /\ ExpandIdle /\ BatchIdle /\ GntpIdle

\* the character `ch` of this iteration of the loop of line 278
Ch == joined[pos + 1]

Scanning == rpc = "scan" /\ pos < Len(joined)

\* '{' => lines 280-283
ScanOpen ==
    /\ Scanning /\ Ch = "{"
    /\ in_braces' = TRUE
    /\ current' = Append(current, Ch)
    /\ pos' = pos + 1
    /\ UNCHANGED <<args, joined, rfile_list, rpc, expandVars, batchVars, gntpVars>>

\* '}' => lines 284-287
ScanClose ==
    /\ Scanning /\ Ch = "}"
    /\ in_braces' = FALSE
    /\ current' = Append(current, Ch)
    /\ pos' = pos + 1
    /\ UNCHANGED <<args, joined, rfile_list, rpc, expandVars, batchVars, gntpVars>>

\* faulty variant: the space arm without the in_braces test
ScanSpace_IgnoresFlag ==
    /\ Scanning /\ Ch = " "
    /\ IF current # <<>>
       THEN rfile_list' = Append(rfile_list, current) /\ current' = <<>>
       ELSE UNCHANGED <<rfile_list, current>>
    /\ pos' = pos + 1
    /\ UNCHANGED <<args, joined, in_braces, rpc, expandVars, batchVars, gntpVars>>

\* ' ' => lines 288-297
ScanSpace ==
    /\ Scanning /\ Ch = " "
    /\ IF ~in_braces
       THEN IF current # <<>>
            THEN rfile_list' = Append(rfile_list, current) /\ current' = <<>>
            ELSE UNCHANGED <<rfile_list, current>>
       ELSE current' = Append(current, Ch) /\ UNCHANGED rfile_list
    /\ pos' = pos + 1
    /\ UNCHANGED <<args, joined, in_braces, rpc, expandVars, batchVars, gntpVars>>

\* _ => lines 298-300
ScanOther ==
    /\ Scanning /\ Ch \notin {"{", "}", " "}
    /\ current' = Append(current, Ch)
    /\ pos' = pos + 1
    /\ UNCHANGED <<args, joined, in_braces, rfile_list, rpc, expandVars, batchVars, gntpVars>>

\* lines 304-308: the final flush and the return
ReconReturn ==
    /\ rpc = "scan" /\ pos = Len(joined)
    /\ rfile_list' = IF current # <<>> THEN Append(rfile_list, current)
                     ELSE rfile_list
    /\ current' = <<>>
    /\ rpc' = "returned"
    /\ UNCHANGED <<args, joined, pos, in_braces, expandVars, batchVars, gntpVars>>

NextRecon ==
    \/ ScanOpen
    \/ ScanClose
    \/ ScanSpace
    \/ ScanOther
    \/ ReconReturn

SpecRecon == InitRecon /\ [][NextRecon]_vars

(***************************************************************************)
(* Vocabulary of the claim about reconstruct_files.                        *)
(***************************************************************************)
\* after the first k characters, the last brace character seen is a '{'
FlagAfter(k) ==
    \E i \in 1..k : joined[i] = "{" /\ \A j \in (i + 1)..k : joined[j] # "}"

\* character i is kept in a token: it is no space, or a space under the flag
Kept(i) == joined[i] # " " \/ FlagAfter(i - 1)

TokenStarts(n) == {i \in 1..n : Kept(i) /\ (i = 1 \/ ~Kept(i - 1))}

TokenEnd(i, n) ==
    CHOOSE j \in i..n :
        (\A k \in i..j : Kept(k)) /\ (j = n \/ ~Kept(j + 1))

\* C5: reconstruct_files scans args.join(" ") with one flag that '{' sets and
\* '}' clears.  The flag is set exactly when the last brace scanned is a '{';
\* a space under a clear flag separates tokens and is dropped, a space under a
\* set flag and every other character is kept in order; no token is empty.
\* So the tokens returned are the maximal runs of kept characters:
\* ["dir/{a,", "b}.txt"] gives the one token "dir/{a, b}.txt", and from a '{'
\* that no '}' follows to the end of the input is one token.
C5_ReconstructByFlag ==
    /\ rpc \in {"scan", "returned"} =>
        /\ in_braces = FlagAfter(pos)
        /\ \A k \in 1..Len(rfile_list) : rfile_list[k] # <<>>
        /\ Flatten(rfile_list) \o current
              = Flatten([k \in 1..pos |-> IF Kept(k) THEN <<joined[k]>> ELSE <<>>])
    /\ rpc = "returned" =>
        LET n == Len(joined)
            starts == TokenStarts(n)
        IN  /\ Len(rfile_list) = Cardinality(starts)
            /\ \A i \in starts :
                 rfile_list[Cardinality({j \in starts : j <= i})]
                    = SubSeq(joined, i, TokenEnd(i, n))
            /\ \A i \in 1..n :
                 (joined[i] = "{" /\ \A j \in (i + 1)..n : joined[j] # "}") =>
                    EndsWith(rfile_list[Len(rfile_list)], SubSeq(joined, i, n))
    /\ (rpc = "returned" /\ args = ArgsSplitGroup) =>
        rfile_list = << <<"d", "i", "r", "/", "{", "a", ",", " ",
                          "b", "}", ".", "t", "x", "t">> >>

C5_Witness ==
    /\ rpc = "returned"
    /\ Len(args) = 2
    /\ Len(rfile_list) = 1
    /\ Contains(rfile_list[1], " ")
    /\ Len(rfile_list[1]) = Len(args[1]) + Len(args[2]) + 1

(***************************************************************************)
(* The file system as create_file sees it.  A path is identified by its    *)
(* components (Path::components): "d//a" and "d/a" name the same file.     *)
(* `denied` is the environment: the paths at which the OS refuses to       *)
(* create a file or a directory (permissions, an invalid name); it does    *)
(* not change during the run.                                              *)
(***************************************************************************)
\* Path::components of a relative path: the non-empty pieces between '/',
\* in order
Components(path) ==
    LET n == Len(path)
        starts == {i \in 1..n : path[i] # "/" /\ (i = 1 \/ path[i - 1] = "/")}
        EndOf(i) == CHOOSE j \in i..n :
                        /\ \A k \in i..j : path[k] # "/"
                        /\ (j = n \/ path[j + 1] = "/")
        Nth(k) == CHOOSE i \in starts : Cardinality({j \in starts : j <= i}) = k
    IN  [k \in 1..Cardinality(starts) |-> SubSeq(path, Nth(k), EndOf(Nth(k)))]

\* Path::parent: the components but the last; absent for a path without any
HasParent(path) == Components(path) # <<>>

Parent(path) == SubSeq(Components(path), 1, Len(Components(path)) - 1)

\* the components of the ancestors of c and of c itself, shortest first
Prefixes(c) == {SubSeq(c, 1, k) : k \in 1..Len(c)}

\* fs::create_dir_all(parent): the first ancestor, going down, that neither
\* is a directory nor can be made one (a regular file is in the way, or the
\* OS refuses); 0 when there is none
DirFailAt(parent) ==
    LET bad == {k \in 1..Len(parent) :
                   /\ SubSeq(parent, 1, k) \notin fs_dirs
                   /\ \/ SubSeq(parent, 1, k) \in DOMAIN fs_files
                      \/ SubSeq(parent, 1, k) \in denied}
    IN  IF bad = {} THEN 0 ELSE CHOOSE k \in bad : \A k2 \in bad : k <= k2

CreateDirAllOk(path) == HasParent(path) => DirFailAt(Parent(path)) = 0

\* the directories that exist after create_dir_all(parent), failed or not
DirsAfterCreateDirAll(path) ==
    IF ~HasParent(path) THEN fs_dirs
    ELSE LET parent == Parent(path)
             stop == DirFailAt(parent)
             made == IF stop = 0 THEN Len(parent) ELSE stop - 1
         IN  fs_dirs \cup {SubSeq(parent, 1, k) : k \in 1..made}

\* faulty variant: OpenOptions::create_new instead of File::create
FileCreateOk_CreateNew(path) ==
    /\ Components(path) # <<>>
    /\ Components(path) \notin DirsAfterCreateDirAll(path)
    /\ Components(path) \notin denied
    /\ Components(path) \notin DOMAIN fs_files

\* File::create(path) (create, write, truncate): refused for a path that
\* names a directory, and where the OS refuses
FileCreateOk(path) ==
    /\ Components(path) # <<>>
    /\ Components(path) \notin DirsAfterCreateDirAll(path)
    /\ Components(path) \notin denied

\* the files after File::create(path) succeeded: path exists with length 0
FilesAfterCreate(path) ==
    [c \in DOMAIN fs_files \cup {Components(path)} |->
        IF c = Components(path) THEN 0 ELSE fs_files[c]]

(***************************************************************************)
(* main from line 364: create_files, the summary and the exit code.        *)
(***************************************************************************)
BatchA == <<"a">>
BatchD == <<"d">>
BatchDA == <<"d", "/", "a">>
BatchAB == <<"{", "a", ",", "b", "}">>
BatchDAB == <<"d", "/", "{", "a", ",", "b", "}">>
BatchBlank == <<"{", " ", "}">>
BatchASlashB == <<"a", "/", "b">>

BatchTokens ==
    {BatchA, BatchD, BatchDA, BatchAB, BatchDAB, BatchBlank, BatchASlashB}

FileLists == SeqsUpTo(BatchTokens, MaxTokens)

\* every path create_files can touch for these tokens
Nodes(list) ==
    LET paths == ExpandAll(list)
    IN  UNION {Prefixes(Components(paths[k])) : k \in 1..Len(paths)}

\* an earlier run may have left a file with content
FilesBefore == {<<>>, [c \in {<<BatchA>>} |-> 1]}

InitBatch ==
    /\ file_list \in FileLists
    /\ all_files = <<>>
    /\ idx = 0
    /\ success_count = 0
    /\ attempts = <<>>
    /\ fs_dirs = {}
    /\ fs_files \in FilesBefore
    /\ denied \in {S \in SUBSET Nodes(file_list) : Cardinality(S) <= MaxDenied}
    /\ total_expected = 0
    /\ exit_code = -1
    /\ bpc = "expand"
    /\ ExpandIdle /\ ReconIdle /\ GntpIdle

\* lines 246-257: the expansion loop
BatchExpand ==
    /\ bpc = "expand"
    /\ all_files' = ExpandAll(file_list)
    /\ bpc' = "create"
    /\ UNCHANGED <<file_list, idx, success_count, attempts, fs_dirs, fs_files,
                   denied, total_expected, exit_code>>
    /\ UNCHANGED <<expandVars, reconVars, gntpVars>>

\* the `filepath` of this iteration of the loop of line 260
Filepath == all_files[idx + 1]

InLoop == bpc = "create" /\ idx < Len(all_files)

Attempt(ok, why) ==
    [path |-> Filepath, ok |-> ok, why |-> why,
     existed |-> Components(Filepath) \in DOMAIN fs_files]

\* create_file lines 141-146: create_dir_all failed, return false
CreateFileDirError ==
    /\ InLoop
    /\ ~CreateDirAllOk(Filepath)
    /\ fs_dirs' = DirsAfterCreateDirAll(Filepath)
    /\ attempts' = Append(attempts, Attempt(FALSE, "dir"))
    /\ idx' = idx + 1
    /\ UNCHANGED <<file_list, all_files, success_count, fs_files, denied,
                   total_expected, exit_code, bpc>>
    /\ UNCHANGED <<expandVars, reconVars, gntpVars>>

\* faulty variant: a failed creation ends the loop (the error is propagated)
CreateFileError_Aborts ==
    /\ InLoop
    /\ CreateDirAllOk(Filepath)
    /\ ~FileCreateOk(Filepath)
    /\ fs_dirs' = DirsAfterCreateDirAll(Filepath)
    /\ attempts' = Append(attempts, Attempt(FALSE, "file"))
    /\ idx' = Len(all_files)
    /\ UNCHANGED <<file_list, all_files, success_count, fs_files, denied,
                   total_expected, exit_code, bpc>>
    /\ UNCHANGED <<expandVars, reconVars, gntpVars>>

\* create_file lines 149-158: File::create failed, return false
CreateFileError ==
    /\ InLoop
    /\ CreateDirAllOk(Filepath)
    /\ ~FileCreateOk(Filepath)
    /\ fs_dirs' = DirsAfterCreateDirAll(Filepath)
    /\ attempts' = Append(attempts, Attempt(FALSE, "file"))
    /\ idx' = idx + 1
    /\ UNCHANGED <<file_list, all_files, success_count, fs_files, denied,
                   total_expected, exit_code, bpc>>
    /\ UNCHANGED <<expandVars, reconVars, gntpVars>>

\* create_file lines 149-174 and line 262: the file is created, return true
\* (canonicalize, the clipboard and notify have no part in the result)
CreateFileOk ==
    /\ InLoop
    /\ CreateDirAllOk(Filepath)
    /\ FileCreateOk(Filepath)
    /\ fs_dirs' = DirsAfterCreateDirAll(Filepath)
    /\ fs_files' = FilesAfterCreate(Filepath)
    /\ attempts' = Append(attempts, Attempt(TRUE, "created"))
    /\ success_count' = success_count + 1
    /\ idx' = idx + 1
    /\ UNCHANGED <<file_list, all_files, denied, total_expected, exit_code,
                   bpc>>
    /\ UNCHANGED <<expandVars, reconVars, gntpVars>>

\* faulty variant: one per token, the expansion forgotten
RECURSIVE TotalExpected_OnePerToken(_)
TotalExpected_OnePerToken(list) ==
    IF list = <<>> THEN 0 ELSE 1 + TotalExpected_OnePerToken(Tail(list))

\* lines 380-389: the sum over file_list
RECURSIVE TotalExpected(_)
TotalExpected(list) ==
    IF list = <<>> THEN 0
    ELSE (IF Contains(Head(list), "{") /\ Contains(Head(list), "}")
          THEN Len(parse_brace_expansion(Head(list)))
          ELSE 1) + TotalExpected(Tail(list))

\* line 266 and lines 377-391: create_files returns, the summary is printed
Summary ==
    /\ bpc = "create" /\ idx = Len(all_files)
    /\ total_expected' = TotalExpected(file_list)
    /\ bpc' = "summary"
    /\ UNCHANGED <<file_list, all_files, idx, success_count, attempts, fs_dirs,
                   fs_files, denied, exit_code>>
    /\ UNCHANGED <<expandVars, reconVars, gntpVars>>

\* lines 393-397
Exit ==
    /\ bpc = "summary"
    /\ exit_code' = IF success_count = total_expected THEN 0 ELSE 1
    /\ bpc' = "exited"
    /\ UNCHANGED <<file_list, all_files, idx, success_count, attempts, fs_dirs,
                   fs_files, denied, total_expected>>
    /\ UNCHANGED <<expandVars, reconVars, gntpVars>>

NextBatch ==
    \/ BatchExpand
    \/ CreateFileDirError
    \/ CreateFileError
    \/ CreateFileOk
    \/ Summary
    \/ Exit

SpecBatch == InitBatch /\ [][NextBatch]_vars

\* main is one thread, and every call it makes is blocking and returns: a
\* step that can be taken is taken.  For BatchExpand and Summary weak fairness
\* is written out, with the action's guard for ENABLED <<A>>_vars: both
\* actions assign every primed variable, so the guard is when they are
\* enabled.
CreateFileStep == CreateFileDirError \/ CreateFileError \/ CreateFileOk

FairBatch ==
    /\ SpecBatch
    /\ WF_vars(CreateFileStep)
    /\ WF_vars(Exit)
    /\ ([]<>(bpc # "expand") \/ []<><<BatchExpand>>_vars)
    /\ ([]<>~(bpc = "create" /\ idx = Len(all_files)) \/ []<><<Summary>>_vars)

(***************************************************************************)
(* Vocabulary of the claims about the batch.                               *)
(***************************************************************************)
PathsAttempted == [k \in 1..Len(attempts) |-> attempts[k].path]

Succeeded == {k \in 1..Len(attempts) : attempts[k].ok}

\* C6: the total reported equals the number of paths create_files attempted,
\* the success count is the number of attempts that succeeded and never
\* exceeds the total, and the exit code is 0 exactly when every attempted path
\* succeeded (also when there was none), 1 otherwise.
C6_TotalsAndExitCode ==
    /\ bpc \in {"create", "summary", "exited"} =>
        /\ success_count = Cardinality(Succeeded)
        /\ success_count <= Len(attempts)
    /\ bpc \in {"summary", "exited"} =>
        /\ total_expected = Len(attempts)
        /\ success_count <= total_expected
    /\ bpc = "exited" =>
        /\ exit_code \in {0, 1}
        /\ exit_code = 0 <=> Cardinality(Succeeded) = Len(attempts)

C6_Witness ==
    /\ bpc = "exited"
    /\ Len(attempts) = 3
    /\ total_expected = 3
    /\ success_count = 2
    /\ exit_code = 1

\* C7: whatever the outcomes, create_files attempts every expanded path once,
\* in token order then expansion order, and the run reaches the summary and
\* the exit.
C7_EveryPathAttempted ==
    /\ [](PathsAttempted = SubSeq(ExpandAll(file_list), 1, Len(attempts)))
    /\ <>(bpc = "exited" /\ PathsAttempted = ExpandAll(file_list))

C7_Witness ==
    /\ bpc = "exited"
    /\ \E i, j, k \in 1..Len(attempts) :
          /\ i < k /\ j < k
          /\ attempts[i].why = "dir"
          /\ attempts[j].why = "file"
          /\ attempts[k].ok

\* C8: once create_file has succeeded on a path, every later create_file on
\* the same path succeeds too, and the file is left with length zero; a file
\* that already exists is truncated and its existence is never an error.
C8_CreateIsIdempotent ==
    /\ \A i, j \in 1..Len(attempts) :
          (/\ i < j
           /\ Components(attempts[i].path) = Components(attempts[j].path)
           /\ attempts[i].ok) => attempts[j].ok
    /\ \A k \in Succeeded :
          /\ Components(attempts[k].path) \in DOMAIN fs_files
          /\ fs_files[Components(attempts[k].path)] = 0
    /\ \A k \in 1..Len(attempts) :
          (/\ attempts[k].existed
           /\ Components(attempts[k].path) \notin denied) => attempts[k].ok

C8_Witness ==
    /\ Len(attempts) >= 2
    /\ attempts[1].path = attempts[2].path
    /\ attempts[1].existed /\ attempts[1].ok
    /\ attempts[2].existed /\ attempts[2].ok
    /\ fs_files[Components(attempts[2].path)] = 0

(***************************************************************************)
(* The global GNTP client: GNTP_CLIENT (lines 21-24), init_gntp (50-96)    *)
(* and notify (216-242), called by any number of threads.  A client is     *)
(* named by the order of its construction: the k-th GntpClient::new makes  *)
(* client k.  MutexGuard is dropped when the function returns.             *)
(***************************************************************************)
Threads == 1..MaxThreads

Event(kind, client) == [kind |-> kind, client |-> client]

Constructions == {k \in 1..Len(events) : events[k].kind = "new"}

InitGntp ==
    /\ use_gntp \in BOOLEAN
    /\ gntp_client = 0
    /\ lock = 0
    /\ tpc = [t \in Threads |-> "idle"]
    /\ tclient = [t \in Threads |-> 0]
    /\ ncalls = [t \in Threads |-> 0]
    /\ events = <<>>
    /\ notified = {}
    /\ ExpandIdle /\ ReconIdle /\ BatchIdle

CanCall(t) == tpc[t] = "idle" /\ ncalls[t] < MaxCalls

\* lines 51-53: init_gntp with notifications disabled returns at once
InitCallDisabled(t) ==
    /\ CanCall(t) /\ ~use_gntp
    /\ ncalls' = [ncalls EXCEPT ![t] = @ + 1]
    /\ UNCHANGED <<use_gntp, gntp_client, lock, tpc, tclient, events, notified>>
    /\ UNCHANGED <<expandVars, reconVars, batchVars>>

\* line 51: init_gntp with notifications enabled goes on to the lock
InitCall(t) ==
    /\ CanCall(t) /\ use_gntp
    /\ ncalls' = [ncalls EXCEPT ![t] = @ + 1]
    /\ tpc' = [tpc EXCEPT ![t] = "init_lock"]
    /\ UNCHANGED <<use_gntp, gntp_client, lock, tclient, events, notified>>
    /\ UNCHANGED <<expandVars, reconVars, batchVars>>

\* line 55: GNTP_CLIENT.lock() blocks until the mutex is free
InitLock(t) ==
    /\ tpc[t] = "init_lock" /\ lock = 0
    /\ lock' = t
    /\ tpc' = [tpc EXCEPT ![t] = "init_locked"]
    /\ UNCHANGED <<use_gntp, gntp_client, tclient, ncalls, events, notified>>
    /\ UNCHANGED <<expandVars, reconVars, batchVars>>

\* lines 57-59: already initialized
InitAlready(t) ==
    /\ tpc[t] = "init_locked" /\ gntp_client # 0
    /\ lock' = 0
    /\ tpc' = [tpc EXCEPT ![t] = "idle"]
    /\ UNCHANGED <<use_gntp, gntp_client, tclient, ncalls, events, notified>>
    /\ UNCHANGED <<expandVars, reconVars, batchVars>>

\* faulty variant: the client is constructed without the is_some test of line 57
InitConstruct_NoIsSomeTest(t) ==
    /\ tpc[t] = "init_locked"
    /\ tclient' = [tclient EXCEPT ![t] = Cardinality(Constructions) + 1]
    /\ events' = Append(events, Event("new", Cardinality(Constructions) + 1))
    /\ tpc' = [tpc EXCEPT ![t] = "init_register"]
    /\ UNCHANGED <<use_gntp, gntp_client, lock, ncalls, notified>>
    /\ UNCHANGED <<expandVars, reconVars, batchVars>>

\* lines 61-80: GntpClient::new, the icon, the notification type
InitConstruct(t) ==
    /\ tpc[t] = "init_locked" /\ gntp_client = 0
    /\ tclient' = [tclient EXCEPT ![t] = Cardinality(Constructions) + 1]
    /\ events' = Append(events, Event("new", Cardinality(Constructions) + 1))
    /\ tpc' = [tpc EXCEPT ![t] = "init_register"]
    /\ UNCHANGED <<use_gntp, gntp_client, lock, ncalls, notified>>
    /\ UNCHANGED <<expandVars, reconVars, batchVars>>

\* lines 82-86: client.register succeeded, the client is stored
InitRegisterOk(t) ==
    /\ tpc[t] = "init_register"
    /\ gntp_client' = tclient[t]
    /\ events' = Append(events, Event("ok", tclient[t]))
    /\ lock' = 0
    /\ tpc' = [tpc EXCEPT ![t] = "idle"]
    /\ UNCHANGED <<use_gntp, tclient, ncalls, notified>>
    /\ UNCHANGED <<expandVars, reconVars, batchVars>>

\* lines 87-94: client.register failed, nothing is stored
InitRegisterErr(t) ==
    /\ tpc[t] = "init_register"
    /\ events' = Append(events, Event("err", tclient[t]))
    /\ lock' = 0
    /\ tpc' = [tpc EXCEPT ![t] = "idle"]
    /\ UNCHANGED <<use_gntp, gntp_client, tclient, ncalls, notified>>
    /\ UNCHANGED <<expandVars, reconVars, batchVars>>

\* lines 217-219: notify with notifications disabled returns at once
NotifyCallDisabled(t) ==
    /\ CanCall(t) /\ ~use_gntp
    /\ ncalls' = [ncalls EXCEPT ![t] = @ + 1]
    /\ UNCHANGED <<use_gntp, gntp_client, lock, tpc, tclient, events, notified>>
    /\ UNCHANGED <<expandVars, reconVars, batchVars>>

\* lines 217-224: notify with notifications enabled goes on to the lock
NotifyCall(t) ==
    /\ CanCall(t) /\ use_gntp
    /\ ncalls' = [ncalls EXCEPT ![t] = @ + 1]
    /\ tpc' = [tpc EXCEPT ![t] = "notify_lock"]
    /\ UNCHANGED <<use_gntp, gntp_client, lock, tclient, events, notified>>
    /\ UNCHANGED <<expandVars, reconVars, batchVars>>

\* line 226
NotifyLock(t) ==
    /\ tpc[t] = "notify_lock" /\ lock = 0
    /\ lock' = t
    /\ tpc' = [tpc EXCEPT ![t] = "notify_locked"]
    /\ UNCHANGED <<use_gntp, gntp_client, tclient, ncalls, events, notified>>
    /\ UNCHANGED <<expandVars, reconVars, batchVars>>

\* lines 228-241: client.notify on the stored client
NotifySend(t) ==
    /\ tpc[t] = "notify_locked" /\ gntp_client # 0
    /\ notified' = notified \cup {gntp_client}
    /\ lock' = 0
    /\ tpc' = [tpc EXCEPT ![t] = "idle"]
    /\ UNCHANGED <<use_gntp, gntp_client, tclient, ncalls, events>>
    /\ UNCHANGED <<expandVars, reconVars, batchVars>>

\* line 228: no client is stored, nothing is sent
NotifyNoClient(t) ==
    /\ tpc[t] = "notify_locked" /\ gntp_client = 0
    /\ lock' = 0
    /\ tpc' = [tpc EXCEPT ![t] = "idle"]
    /\ UNCHANGED <<use_gntp, gntp_client, tclient, ncalls, events, notified>>
    /\ UNCHANGED <<expandVars, reconVars, batchVars>>

NextGntp ==
    \/ \E t \in Threads : InitCallDisabled(t)
    \/ \E t \in Threads : InitCall(t)
    \/ \E t \in Threads : InitLock(t)
    \/ \E t \in Threads : InitAlready(t)
    \/ \E t \in Threads : InitConstruct(t)
    \/ \E t \in Threads : InitRegisterOk(t)
    \/ \E t \in Threads : InitRegisterErr(t)
    \/ \E t \in Threads : NotifyCallDisabled(t)
    \/ \E t \in Threads : NotifyCall(t)
    \/ \E t \in Threads : NotifyLock(t)
    \/ \E t \in Threads : NotifySend(t)
    \/ \E t \in Threads : NotifyNoClient(t)

SpecGntp == InitGntp /\ [][NextGntp]_vars

(***************************************************************************)
(* Vocabulary of the claim about the GNTP client.                          *)
(***************************************************************************)
Registrations == {k \in 1..Len(events) : events[k].kind \in {"ok", "err"}}

Stored == {k \in 1..Len(events) : events[k].kind = "ok"}

NotifyUsesTheHandle == notified \subseteq ({gntp_client} \ {0})

DisabledMeansUntouched ==
    ~use_gntp => (events = <<>> /\ gntp_client = 0 /\ notified = {} /\ lock = 0)

\* C10 as stated: under any interleaving of init_gntp and notify calls the
\* client is constructed and registered at most once, the stored handle is
\* never replaced, every notify uses it, and with notifications disabled
\* nothing is initialised or notified.
C10_ConstructedAtMostOnce ==
    /\ Cardinality(Constructions) <= 1
    /\ Cardinality(Registrations) <= 1
    /\ Cardinality(Stored) <= 1
    /\ NotifyUsesTheHandle
    /\ DisabledMeansUntouched

\* C10 amended: the handle is set at most once and never replaced.  A client
\* is constructed and registered only by the holder of the mutex while the
\* handle is unset; a successful registration stores the client and is the
\* last construction; a failed one stores nothing, so that a later init_gntp
\* constructs and registers again.  Every notify that reaches a client uses
\* the stored one, and with notifications disabled nothing is initialised.
C10_StoredAtMostOnce ==
    /\ Cardinality(Stored) <= 1
    /\ \A k \in 1..Len(events) :
          /\ (k % 2 = 1) => events[k] = Event("new", (k + 1) \div 2)
          /\ (k % 2 = 0) => /\ events[k].kind \in {"ok", "err"}
                            /\ events[k].client = events[k - 1].client
          /\ events[k].kind = "ok" => k = Len(events)
    /\ gntp_client # 0 <=>
          (events # <<>> /\ events[Len(events)] = Event("ok", gntp_client))
    /\ \A t \in Threads :
          tpc[t] \in {"init_locked", "init_register", "notify_locked"} => lock = t
    /\ NotifyUsesTheHandle
    /\ DisabledMeansUntouched

C10_Witness ==
    /\ Len(events) = 4
    /\ events[2].kind = "err"
    /\ gntp_client = 2
    /\ notified = {2}

====
